---- MODULE Spec2Model ----
(***************************************************************************)
(* KybernetixManager (src/src/provider.ts): a client-side feature-flag     *)
(* manager.  The model has one manager, the event loop that runs its       *)
(* asynchronous functions between their awaits, the timer table of the     *)
(* host (setInterval / clearInterval) and the feature service that answers *)
(* the GET and POST requests.                                              *)
(*                                                                         *)
(* An async function is cut at each await: the part up to the first await  *)
(* runs inside the caller's action, every later part is an action of its   *)
(* own, so that other handlers interleave exactly where the event loop     *)
(* lets them.                                                              *)
(***************************************************************************)
EXTENDS Integers, Sequences, FiniteSets, TLC

(***************************************************************************)
(* Bounds of the model.                                                    *)
(***************************************************************************)
MaxCalls == 3      \* calls the application makes on the manager
MaxInits == 2      \* calls of init() among them
MaxPeriods == 2    \* 10-second timer periods that elapse
MaxInFlight == 2   \* getFeatures() calls in flight at one time

(***************************************************************************)
(* Values.                                                                 *)
(***************************************************************************)
\* the result of a lookup that finds nothing (JavaScript undefined)
Undefined == [undefined |-> TRUE]

\* IDeclareFeatureOptions: {times: IDeclareFeatureTime[]}
DeclareOptions == {[times |-> <<>>], [times |-> <<[start |-> 1]>>]}

\* ComposedDeclareFeatureOptions: the record of the HTTP contract
Composed(enabled) == [times |-> <<>>, enabled |-> enabled]

\* the record the declaredFeatures field is declared to hold
Cached(enabled) == [options |-> [times |-> <<>>], meta |-> [enabled |-> enabled]]

\* the feature names the callers ask about
FeatureNames == {"featureA", "featureB"}

\* declaredFeatures = {}
EmptyFeatures == [n \in {} |-> Undefined]

\* the mappings the service answers a read with
ServerFeatures ==
  { "featureA" :> Composed(TRUE),
    ("featureA" :> Cached(FALSE)) @@ ("featureB" :> Cached(TRUE)) }

\* a response body is text; JsonBody is the text that parses to v,
\* TextBody a text that is no JSON
JsonBody(v) == [kind |-> "json", value |-> v]
TextBody(s) == [kind |-> "text", value |-> s]

\* what the service answers a GET with
GetResponses ==
  [ok : {TRUE}, status : {200}, body : {JsonBody(m) : m \in ServerFeatures}]
  \cup
  [ok : {FALSE}, status : {500},
   body : {TextBody("Get error"),
           JsonBody("error" :> [message |-> "Get error"])}]

\* what the service answers a POST with
PostResponses ==
  [ok : {TRUE}, status : {200}, body : {JsonBody([success |-> TRUE])}]
  \cup
  [ok : {FALSE}, status : {500}, body : {TextBody("Some error")}]

NoResponse == [ok |-> FALSE, status |-> 0, body |-> TextBody("")]

\* IManagerOptions given to the constructor: publicKey and privateKey may
\* be absent or empty
ManagerOptions ==
  { [publicKey |-> "test-public-key", privateKey |-> "test-private-key"],
    [publicKey |-> "test-public-key"],
    [publicKey |-> "test-public-key", privateKey |-> ""],
    [privateKey |-> "test-private-key"] }

\* how a call ends
Return(v) == [kind |-> "return", value |-> v]
Throw(e) == [kind |-> "throw", error |-> e]
Resolve(v) == [kind |-> "resolve", value |-> v]
Reject(e) == [kind |-> "reject", error |-> e]
Pending == [kind |-> "pending"]

VARIABLES
  options,           \* this.options
  inited,            \* this.inited
  interval,          \* this.interval: 0 is null, else a timer id
  declaredFeatures,  \* this.declaredFeatures
  timers,            \* the ids of the host's active interval timers
  periods,           \* periods[t]: the 10-second periods elapsed for timer t
  refresh,           \* the getFeatures() calls that issued a read, in order
  inits,             \* the init() calls, in order: how each ended
  creates,           \* the createFeature() calls, in order
  posts,             \* the POST requests issued
  destroys,          \* the destroy() calls made
  queries,           \* the declareFeature() and isEnabled() calls made
  torn,              \* the init() calls that were in flight during a destroy()
  op                 \* the operation or step that ran last

vars == <<options, inited, interval, declaredFeatures, timers, periods,
          refresh, inits, creates, posts, destroys, queries, torn, op>>

\* the GET requests issued
reads == Len(refresh)

\* the calls the application has made
calls == Len(inits) + destroys + queries

\* !x for a string field of the options
Missing(o, field) == field \notin DOMAIN o \/ o[field] = ""

\* options = { apiUrl: 'https://api.platform.kybernetix.ru', ...opts }
Construct(opts) == opts @@ [apiUrl |-> "https://api.platform.kybernetix.ru"]

\* the constructor ran last
NoOp == [name |-> "new", id |-> 0, feature |-> "", arg |-> Undefined,
         ret |-> Pending]

Init ==
  /\ options \in {Construct(o) : o \in ManagerOptions}
  /\ inited = FALSE
  /\ interval = 0
  /\ declaredFeatures = EmptyFeatures
  /\ timers = {}
  /\ periods = [t \in 1..MaxInits |-> 0]
  /\ refresh = <<>>
  /\ inits = <<>>
  /\ creates = <<>>
  /\ posts = 0
  /\ destroys = 0
  /\ queries = 0
  /\ torn = {}
  /\ op = NoOp

(***************************************************************************)
(* The pure parts of the methods.                                          *)
(***************************************************************************)
\* getLocalFeature: this.declaredFeatures[featureName]
getLocalFeature(features, featureName) ==
  IF featureName \in DOMAIN features THEN features[featureName] ELSE Undefined

\* reading property p of a value: undefined when the value has no such property
Property(v, p) == IF p \in DOMAIN v THEN v[p] ELSE Undefined

TypeError == [name |-> "TypeError"]

\* isEnabled: what the call returns or throws.  feature.meta.enabled
\* throws a TypeError when feature.meta is undefined.
isEnabledResult(features, featureName) ==
  LET feature == getLocalFeature(features, featureName) IN
  IF feature = Undefined THEN Return(FALSE)
  ELSE IF Property(feature, "meta") = Undefined THEN Throw(TypeError)
  ELSE Return(Property(Property(feature, "meta"), "enabled"))

\* a lookup whose result is ignored: the creation is requested every time
CreatesAlways(features, featureName) == TRUE

\* isEnabled and declareFeature: whether the call goes on to createFeature
CreatesFeature(features, featureName) ==
  getLocalFeature(features, featureName) = Undefined

\* a call that also stores a placeholder for the feature it asked to create
FeaturesWithPlaceholder(features, featureName) ==
  IF featureName \in DOMAIN features THEN features
  ELSE features @@ (featureName :> Cached(FALSE))

\* isEnabled, declareFeature and createFeature never write
\* this.declaredFeatures: the cache after such a call for featureName
FeaturesAfterQuery(features, featureName) == features

\* a createFeature without the private key check
CreateNeverSkipped(o) == FALSE

\* createFeature: whether the request is skipped (no private key)
CreateSkipped(o) == Missing(o, "privateKey")

\* createFeature: the body of the POST request,
\* {featureName, privateKey: this.options.privateKey, ...options}
CreateBody(o, featureName, opts) ==
  opts @@ [featureName |-> featureName, privateKey |-> Property(o, "privateKey")]

\* a getFeatures without the public key check
PublicKeyNeverMissing(o) == FALSE

\* getFeatures: whether the call throws for want of a public key
PublicKeyMissing(o) == Missing(o, "publicKey")

\* getFeatures: the error of a manager without public key
PublicKeyError ==
  [message |-> <<"Public key is missing. Please provide a valid publicKey in the SDK configuration.">>]

\* a getFeatures that goes on whatever the response
getFeaturesNeverThrows(response, isInited) == FALSE

\* the test of this.inited inverted
getFeaturesThrowsInited(response, isInited) == ~response.ok /\ isInited

\* getFeatures: whether a response makes the call throw
getFeaturesThrows(response, isInited) == ~response.ok /\ ~isInited

\* getFeatures: the error thrown for a response
getFeaturesError(response) ==
  [message |-> <<"Failed to get features: ", response.status, " - ",
                 response.body>>]

SyntaxError == [name |-> "SyntaxError"]

\* response.json(): the parsed body, or a SyntaxError for a body that is no JSON
ResponseJson(response) ==
  IF response.body.kind = "json" THEN Resolve(response.body.value)
  ELSE Reject(SyntaxError)

\* a createFeature that does not look at response.ok
CreateResultUnchecked(response) == ResponseJson(response)

\* createFeature: how the call ends once the response is there
CreateResult(response) ==
  IF ~response.ok
    THEN Reject([message |-> <<"Failed to create feature: ", response.status,
                               " - ", response.body>>])
    ELSE ResponseJson(response)

\* a refresh that merges the response into the cache
getFeaturesMerge(features, parsed) == parsed @@ features

\* getFeatures: this.declaredFeatures = await response.json()
getFeaturesAssign(features, parsed) == parsed

\* an init that starts a timer only when none is running
SetIntervalOnce(ts, id) == IF ts = {} THEN {id} ELSE ts

\* init: setInterval(...) adds a timer that fires at every period
SetInterval(ts, id) == ts \cup {id}

\* a timer that fires once (setTimeout)
TimersOneShot(ts, t) == ts \ {t}

\* the host's timers after timer t has fired: an interval timer stays
TimersAfterFire(ts, t) == ts

\* a destroy that leaves the timer running
ClearIntervalSkipped(ts, handle) == ts

\* destroy: if (this.interval) clearInterval(this.interval)
ClearInterval(ts, handle) == IF handle # 0 THEN ts \ {handle} ELSE ts

\* a destroy that leaves the cache as it is
FeaturesKept(features) == features

\* destroy: this.declaredFeatures = {}
FeaturesAfterDestroy(features) == EmptyFeatures

\* the timers created so far (one by every init() that went through)
timersCreated == Cardinality({i \in DOMAIN inits : inits[i].kind = "resolve"})

\* the timer periods that have elapsed, over all timers
RECURSIVE ElapsedUpTo(_)
ElapsedUpTo(t) == IF t = 0 THEN 0 ELSE periods[t] + ElapsedUpTo(t - 1)
elapsed == ElapsedUpTo(MaxInits)

\* the getFeatures() calls that can be issued
Requests == 1..(MaxInits + MaxPeriods)

\* the getFeatures() calls that have not ended
InFlight == {i \in DOMAIN refresh : refresh[i].pc # "done"}

\* the init() calls that have not ended
InitsInFlight == {i \in DOMAIN inits : inits[i].kind = "pending"}

\* a getFeatures() call that has ended leaves nothing behind
Done(i) == [refresh EXCEPT ![i] = [origin |-> "done", call |-> 0, pc |-> "done",
                                   response |-> NoResponse]]

\* the read requests that await their response
Fetching == {i \in DOMAIN refresh : refresh[i].pc = "fetch"}

(***************************************************************************)
(* getFeatures up to its first await: the public key check and the fetch.  *)
(***************************************************************************)
getFeaturesCall(origin, call) ==
  IF PublicKeyMissing(options)
    THEN /\ refresh' = refresh
         /\ op' = [name |-> origin, id |-> call, feature |-> "", arg |-> Undefined,
                   ret |-> Reject(PublicKeyError)]
    ELSE /\ refresh' = Append(refresh, [origin |-> origin, call |-> call,
                                        pc |-> "fetch", response |-> NoResponse])
         /\ op' = [name |-> origin, id |-> call, feature |-> "", arg |-> Undefined,
                   ret |-> Pending]

\* init(): runs getFeatures() up to the fetch
init ==
  /\ calls < MaxCalls
  /\ Len(inits) < MaxInits
  /\ Cardinality(InFlight) < MaxInFlight
  /\ getFeaturesCall("init", Len(inits) + 1)
  /\ inits' = Append(inits, op'.ret)
  /\ UNCHANGED <<options, torn, inited, interval, declaredFeatures, timers, periods,
                 creates, posts, destroys, queries>>

\* a 10-second period of timer t elapses: if the timer is active its
\* callback runs getFeatures() up to the fetch
Tick(t) ==
  /\ t \in 1..timersCreated
  /\ elapsed < MaxPeriods
  /\ t \in timers => Cardinality(InFlight) < MaxInFlight
  /\ periods' = [periods EXCEPT ![t] = @ + 1]
  /\ IF t \in timers
       THEN /\ getFeaturesCall("tick", t)
            /\ timers' = TimersAfterFire(timers, t)
       ELSE /\ op' = [name |-> "idle", id |-> t, feature |-> "", arg |-> Undefined,
                      ret |-> Pending]
            /\ UNCHANGED <<refresh, timers>>
  /\ UNCHANGED <<options, torn, inited, interval, declaredFeatures, inits, creates,
                 posts, destroys, queries>>

\* the response of read i arrives: const response = await fetch(...), then
\* the test of response.ok and this.inited
FetchResolve(i, response) ==
  /\ i \in DOMAIN refresh
  /\ refresh[i].pc = "fetch"
  /\ refresh' = [refresh EXCEPT
                   ![i].pc = IF getFeaturesThrows(response, inited)
                               THEN "text" ELSE "json",
                   ![i].response = response]
  /\ op' = [name |-> "fetch", id |-> i, feature |-> "", arg |-> Undefined,
            ret |-> Pending]
  /\ UNCHANGED <<options, torn, inited, interval, declaredFeatures, timers, periods,
                 inits, creates, posts, destroys, queries>>

\* await response.text() is over: getFeatures throws, and the init() that
\* awaits it rejects with the same error
TextResolve(i) ==
  /\ i \in DOMAIN refresh
  /\ refresh[i].pc = "text"
  /\ LET r == refresh[i]
         e == getFeaturesError(r.response) IN
     /\ refresh' = Done(i)
     /\ op' = [name |-> "getFeatures", id |-> i, feature |-> "", arg |-> Undefined,
               ret |-> Reject(e)]
     /\ inits' = IF r.origin = "init" THEN [inits EXCEPT ![r.call] = Reject(e)]
                 ELSE inits
  /\ UNCHANGED <<options, torn, inited, interval, declaredFeatures, timers, periods,
                 creates, posts, destroys, queries>>

\* await response.json() is over: the assignment to this.declaredFeatures,
\* or the rejection when the body does not parse
JsonResolve(i) ==
  /\ i \in DOMAIN refresh
  /\ refresh[i].pc = "json"
  /\ LET r == refresh[i]
         parsed == ResponseJson(r.response) IN
     IF parsed.kind = "reject"
       THEN /\ refresh' = Done(i)
            /\ op' = [name |-> "getFeatures", id |-> i, feature |-> "", arg |-> Undefined,
                      ret |-> parsed]
            /\ inits' = IF r.origin = "init"
                          THEN [inits EXCEPT ![r.call] = parsed] ELSE inits
            /\ UNCHANGED declaredFeatures
       ELSE /\ declaredFeatures' = getFeaturesAssign(declaredFeatures, parsed.value)
            /\ refresh' = IF r.origin = "init"
                            THEN [refresh EXCEPT ![i].pc = "resume"]
                            ELSE Done(i)
            /\ op' = [name |-> "getFeatures", id |-> i, feature |-> "", arg |-> Undefined,
                      ret |-> Resolve(Undefined)]
            /\ UNCHANGED inits
  /\ UNCHANGED <<options, torn, inited, interval, timers, periods, creates, posts,
                 destroys, queries>>

\* init() after await this.getFeatures(): setInterval and inited = true
InitResume(i) ==
  /\ i \in DOMAIN refresh
  /\ refresh[i].pc = "resume"
  /\ LET id == timersCreated + 1 IN
     /\ timers' = SetInterval(timers, id)
     /\ interval' = id
  /\ inited' = TRUE
  /\ inits' = [inits EXCEPT ![refresh[i].call] = Resolve(Undefined)]
  /\ refresh' = Done(i)
  /\ op' = [name |-> "init", id |-> refresh[i].call, feature |-> "",
            arg |-> Undefined, ret |-> Resolve(Undefined)]
  /\ UNCHANGED <<options, torn, declaredFeatures, periods, creates, posts, destroys,
                 queries>>

\* destroy()
destroy ==
  /\ calls < MaxCalls
  /\ destroys' = destroys + 1
  /\ inited' = FALSE
  /\ timers' = ClearInterval(timers, interval)
  /\ declaredFeatures' = FeaturesAfterDestroy(declaredFeatures)
  /\ op' = [name |-> "destroy", id |-> 0, feature |-> "", arg |-> Undefined,
            ret |-> Return(Undefined)]
  /\ torn' = torn \cup InitsInFlight
  /\ UNCHANGED <<options, interval, periods, refresh, inits, creates, posts,
                 queries>>

\* return null
Null == [null |-> TRUE]

\* createFeature(featureName, opts) up to its first await: the private key
\* check and the fetch.  Nobody awaits the promise it returns.
createFeature(featureName, opts) ==
  IF CreateSkipped(options)
    THEN /\ creates' = Append(creates, [featureName |-> featureName,
                                        options |-> opts, request |-> Undefined,
                                        response |-> NoResponse,
                                        ret |-> Resolve(Null)])
         /\ posts' = posts
    ELSE /\ creates' = Append(creates, [featureName |-> featureName,
                                        options |-> opts,
                                        request |-> CreateBody(options, featureName, opts),
                                        response |-> NoResponse,
                                        ret |-> Pending])
         /\ posts' = posts + 1

\* the response of the POST of createFeature call c arrives
CreateResolve(c, response) ==
  /\ c \in DOMAIN creates
  /\ creates[c].ret = Pending
  /\ creates' = [creates EXCEPT ![c].response = response,
                                 ![c].ret = CreateResult(response)]
  /\ op' = [name |-> "createFeature", id |-> c, feature |-> creates[c].featureName,
            arg |-> creates[c].options, ret |-> creates'[c].ret]
  /\ UNCHANGED <<options, torn, inited, interval, declaredFeatures, timers, periods,
                 refresh, inits, posts, destroys, queries>>

\* declareFeature(featureName, opts)
declareFeature(featureName, opts) ==
  /\ calls < MaxCalls
  /\ queries' = queries + 1
  /\ IF CreatesFeature(declaredFeatures, featureName)
       THEN createFeature(featureName, opts)
       ELSE UNCHANGED <<creates, posts>>
  /\ op' = [name |-> "declareFeature", id |-> 0, feature |-> featureName,
            arg |-> opts, ret |-> Return(Undefined)]
  /\ declaredFeatures' = FeaturesAfterQuery(declaredFeatures, featureName)
  /\ UNCHANGED <<options, torn, inited, interval, timers, periods, refresh, inits,
                 destroys>>

\* isEnabled(featureName)
isEnabled(featureName) ==
  /\ calls < MaxCalls
  /\ queries' = queries + 1
  /\ IF CreatesFeature(declaredFeatures, featureName)
       THEN createFeature(featureName, [times |-> <<>>])
       ELSE UNCHANGED <<creates, posts>>
  /\ op' = [name |-> "isEnabled", id |-> 0, feature |-> featureName,
            arg |-> Undefined,
            ret |-> isEnabledResult(declaredFeatures, featureName)]
  /\ declaredFeatures' = FeaturesAfterQuery(declaredFeatures, featureName)
  /\ UNCHANGED <<options, torn, inited, interval, timers, periods, refresh, inits,
                 destroys>>

Next ==
  \/ init
  \/ destroy
  \/ \E t \in 1..MaxInits : Tick(t)
  \/ \E i \in Requests :
       \E response \in GetResponses : FetchResolve(i, response)
  \/ \E i \in Requests : TextResolve(i)
  \/ \E i \in Requests : JsonResolve(i)
  \/ \E i \in Requests : InitResume(i)
  \/ \E featureName \in FeatureNames, opts \in DeclareOptions :
       declareFeature(featureName, opts)
  \/ \E featureName \in FeatureNames : isEnabled(featureName)
  \/ \E c \in 1..MaxCalls : \E response \in PostResponses :
       CreateResolve(c, response)

Spec == Init /\ [][Next]_vars


(***************************************************************************)
(* Properties.                                                             *)
(***************************************************************************)
\* the mapping a success response carries
Mapping(response) == response.body.value

\* step: getFeatures() call i gets past await response.json()
JsonStep(i) ==
  i \in DOMAIN refresh /\ refresh[i].pc = "json" /\ refresh'[i].pc # "json"

\* step: the init() that made getFeatures() call i resolves
ResumeStep(i) ==
  i \in DOMAIN refresh /\ refresh[i].pc = "resume" /\ refresh'[i].pc = "done"

\* C1: a refresh that received a success response leaves the cache equal to
\* the mapping of that response, with no key of the old cache surviving; and
\* when the one init() of a manager that was not destroyed resolves, the
\* cache is the mapping of its first read.
C1_RefreshReplacesCache ==
  [][\A i \in Requests :
       /\ (JsonStep(i) /\ refresh[i].response.ok)
            => /\ declaredFeatures' = Mapping(refresh[i].response)
               /\ DOMAIN declaredFeatures' = DOMAIN Mapping(refresh[i].response)
       /\ (ResumeStep(i) /\ Len(inits) = 1 /\ destroys = 0)
            => declaredFeatures' = Mapping(refresh[i].response)]_vars

\* a periodic refresh got a success response that lacks a key of the cache
\* it replaced (the response of the tests, after the two-feature one)
C1_Witness ==
  /\ op.name = "getFeatures" /\ op.id = 2 /\ op.ret = Resolve(Undefined)
  /\ inited
  /\ declaredFeatures = "featureA" :> Composed(TRUE)

\* C2: a periodic refresh that got a non-success response while initialized
\* was true resolves and leaves the cache as it was.
C2_NonOkIgnoredWhenInited ==
  [][\A i \in Requests :
       (JsonStep(i) /\ refresh[i].origin = "tick" /\ ~refresh[i].response.ok)
         => /\ declaredFeatures' = declaredFeatures
            /\ op'.ret.kind = "resolve"]_vars

\* C3: once init() has succeeded, isEnabled of a name the cache holds with a
\* {times, enabled} record returns that record's enabled value.
C3_IsEnabledAfterInit ==
  ( /\ op.name = "isEnabled"
    /\ timersCreated >= 1
    /\ op.feature \in DOMAIN declaredFeatures
    /\ "enabled" \in DOMAIN declaredFeatures[op.feature] )
  => op.ret = Return(declaredFeatures[op.feature].enabled)

\* C4: a non-success response to the first refresh of an init(), received
\* while initialized is false, makes the refresh throw; the error carries the
\* status and the body text, the init() rejects with it, and the step starts
\* no timer and leaves initialized and the cache as they were.
C4_InitRejects ==
  [][\A i \in Requests :
       /\ ( /\ i \in DOMAIN refresh /\ refresh[i].pc = "fetch"
            /\ refresh[i].origin = "init" /\ ~inited
            /\ refresh'[i].pc # "fetch" /\ ~refresh'[i].response.ok )
          => refresh'[i].pc = "text"
       /\ ( /\ i \in DOMAIN refresh /\ refresh[i].pc = "text"
            /\ refresh[i].origin = "init" /\ refresh'[i].pc = "done" )
          => /\ op'.ret.kind = "reject"
             /\ op'.ret.error.message[2] = refresh[i].response.status
             /\ op'.ret.error.message[4] = refresh[i].response.body
             /\ inits'[refresh[i].call] = op'.ret
             /\ UNCHANGED <<timers, interval, inited, declaredFeatures>>]_vars

\* the first init() of a manager was rejected with the status and the text
\* of a 500 response
C4_Witness ==
  /\ op.name = "getFeatures" /\ op.ret.kind = "reject"
  /\ Len(inits) = 1 /\ inits[1] = op.ret
  /\ op.ret.error.message[2] = 500
  /\ op.ret.error.message[4] = TextBody("Get error")
  /\ ~inited /\ timers = {} /\ interval = 0
  /\ declaredFeatures = EmptyFeatures

\* C5: with one init() call and no destroy(), one read is issued by init()
\* and one more at every period of the timer that init() started.
C5_PeriodicReads ==
  (Len(inits) = 1 /\ destroys = 0)
  => /\ inits[1].kind = "pending" => reads = 1
     /\ inits[1].kind = "resolve" => reads = 1 + periods[1]

\* two periods after the init(), three reads
C5_Witness ==
  /\ Len(inits) = 1 /\ destroys = 0 /\ inits[1].kind = "resolve"
  /\ periods[1] = 2 /\ reads = 3


\* C6: destroy() after the one init() of a manager has resolved leaves
\* initialized false, the cache empty, isEnabled false for every name and no
\* timer active; from then on, while init() is not called again, no period
\* that elapses issues a read.
C6_DestroyStopsPolling ==
  [][/\ (destroys' = destroys + 1 /\ Len(inits) = 1 /\ inits[1].kind = "resolve")
        => /\ inited' = FALSE
           /\ declaredFeatures' = EmptyFeatures
           /\ \A n \in FeatureNames :
                isEnabledResult(declaredFeatures', n) = Return(FALSE)
           /\ timers' = {}
     /\ ( /\ Len(inits) = 1 /\ inits[1].kind = "resolve" /\ destroys >= 1
          /\ timers = {} /\ Len(inits') = 1 )
        => /\ reads' = reads
           /\ timers' = {}
           /\ inited' = FALSE]_vars

\* two periods have elapsed after init() and destroy(): the only read is
\* the one of init()
C6_Witness ==
  /\ op.name = "idle" /\ periods[1] = 2
  /\ Len(inits) = 1 /\ inits[1].kind = "resolve" /\ destroys = 1
  /\ reads = 1
  /\ ~inited /\ timers = {} /\ declaredFeatures = EmptyFeatures

\* the enabled value a cached record carries
EnabledOf(feature) ==
  IF "meta" \in DOMAIN feature THEN feature.meta.enabled ELSE feature.enabled

\* step: a call of isEnabled or declareFeature
QueryStep(name, featureName) ==
  queries' = queries + 1 /\ op'.name = name /\ op'.feature = featureName

\* the createFeature call a step added
Created == creates'[Len(creates')]

\* step: exactly one createFeature call is made, for featureName with opts
CreatesOne(featureName, opts) ==
  /\ Len(creates') = Len(creates) + 1
  /\ SubSeq(creates', 1, Len(creates)) = creates
  /\ Created.featureName = featureName
  /\ Created.options = opts

\* C7: isEnabled(name) returns the cached enabled value of a name the cache
\* holds and creates nothing; for a name the cache lacks it returns false and
\* makes exactly one createFeature call, with {times: []}.
C7_IsEnabledContract ==
  [][\A n \in FeatureNames :
       QueryStep("isEnabled", n)
         => IF n \in DOMAIN declaredFeatures
              THEN /\ op'.ret = Return(EnabledOf(declaredFeatures[n]))
                   /\ creates' = creates
              ELSE /\ op'.ret = Return(FALSE)
                   /\ CreatesOne(n, [times |-> <<>>])]_vars

\* C8: declareFeature(name, opts) returns nothing; it creates nothing for a
\* name the cache holds, and for a name the cache lacks it makes exactly one
\* createFeature call with name and opts, whose request is still pending
\* when declareFeature returns.
C8_DeclareFeatureContract ==
  [][\A n \in FeatureNames :
       QueryStep("declareFeature", n)
         => /\ op'.ret = Return(Undefined)
            /\ IF n \in DOMAIN declaredFeatures
                 THEN creates' = creates /\ posts' = posts
                 ELSE /\ CreatesOne(n, op'.arg)
                      /\ ~Missing(options, "privateKey")
                           => /\ Created.ret = Pending
                              /\ posts' = posts + 1]_vars

\* declareFeature of an unknown feature with a time window has made the one
\* createFeature call, which awaits its response
C8_Witness ==
  /\ op.name = "declareFeature"
  /\ op.arg = [times |-> <<[start |-> 1]>>]
  /\ Len(creates) = 1 /\ posts = 1
  /\ creates[1].featureName = op.feature
  /\ creates[1].options = op.arg
  /\ creates[1].ret = Pending

\* C9: without a private key every createFeature call resolves to null
\* without a request, so no POST is ever issued.
C9_NoPrivateKeyNoPost ==
  Missing(options, "privateKey")
  => /\ posts = 0
     /\ \A c \in DOMAIN creates :
          creates[c].ret = Resolve(Null) /\ creates[c].request = Undefined

\* a manager without private key after declareFeature and isEnabled of
\* unknown features
C9_Witness ==
  /\ Missing(options, "privateKey")
  /\ Len(creates) = 2
  /\ creates[1].options = [times |-> <<[start |-> 1]>>]
  /\ op.name = "isEnabled"

\* C10: declareFeature, isEnabled and createFeature (skipped, pending,
\* resolved or rejected) leave the cache, initialized, the timer handle and
\* the timers as they were; what isEnabled answers for a name changes only
\* in a step where getFeatures assigns its response or in destroy(), and a
\* name enters the cache only in the former.
C10_QueriesLeaveStateAlone ==
  [][/\ (queries' # queries \/ creates' # creates \/ posts' # posts)
        => UNCHANGED <<declaredFeatures, inited, interval, timers>>
     /\ \A n \in FeatureNames :
          /\ isEnabledResult(declaredFeatures', n) # isEnabledResult(declaredFeatures, n)
               => \/ \E i \in Requests : JsonStep(i)
                  \/ destroys' = destroys + 1
          /\ (n \notin DOMAIN declaredFeatures /\ n \in DOMAIN declaredFeatures')
               => \E i \in Requests : JsonStep(i)]_vars

\* the service has created the feature, and isEnabled still answers false
C10_Witness ==
  /\ op.name = "isEnabled" /\ op.ret = Return(FALSE)
  /\ Len(creates) = 2
  /\ creates[1].featureName = op.feature
  /\ creates[1].ret = Resolve([success |-> TRUE])


\* C11: without a public key no read is ever issued: every init() rejects
\* with the 'public key missing' error, no timer is started and initialized
\* stays false.
C11_NoPublicKeyNoRead ==
  Missing(options, "publicKey")
  => /\ reads = 0
     /\ \A i \in DOMAIN inits : inits[i] = Reject(PublicKeyError)
     /\ timers = {} /\ interval = 0
     /\ ~inited

\* two init() calls on a manager without public key, both rejected
C11_Witness ==
  /\ Missing(options, "publicKey")
  /\ op.name = "init" /\ op.ret = Reject(PublicKeyError)
  /\ Len(inits) = 2

\* C12: on a manager with a private key, a createFeature call whose POST got
\* a non-success response has rejected with an error that carries the status
\* and the body text of that response; one whose POST got a success response
\* has resolved with the parsed body of that response.
C12_CreateOutcome ==
  ~Missing(options, "privateKey")
  => \A c \in DOMAIN creates :
       LET r == creates[c] IN
       r.ret # Pending
       => IF r.response.ok
            THEN r.ret = Resolve(r.response.body.value)
            ELSE /\ r.ret.kind = "reject"
                 /\ "message" \in DOMAIN r.ret.error
                 /\ r.ret.error.message[2] = r.response.status
                 /\ r.ret.error.message[4] = r.response.body

\* one creation rejected for a 500 'Some error', another resolved
C12_Witness ==
  /\ ~Missing(options, "privateKey")
  /\ Len(creates) = 2
  /\ creates[1].ret.kind = "reject"
  /\ creates[1].response = [ok |-> FALSE, status |-> 500,
                            body |-> TextBody("Some error")]
  /\ creates[2].ret = Resolve([success |-> TRUE])
  /\ op.name = "createFeature"

\* step: a call of destroy()
DestroyStep == destroys' = destroys + 1

C14_TimerAfterFirstRefresh ==
  /\ Len(inits) = 1
       => /\ inits[1].kind = "pending"
               => /\ ~inited /\ timers = {} /\ interval = 0
                  /\ reads = 1 /\ Cardinality(InFlight) = 1
          /\ inits[1].kind = "reject"
               => ~inited /\ timers = {} /\ interval = 0 /\ reads <= 1
          /\ \A i \in DOMAIN refresh :
               refresh[i].pc = "resume" => refresh[i].response.ok
  /\ inited => timersCreated >= 1 /\ interval # 0

\* the first refresh of the one init() has completed with a success
\* response; init() has not yet gone on to setInterval
C14_Witness ==
  /\ Len(inits) = 1 /\ inits[1].kind = "pending"
  /\ reads = 1 /\ refresh[1].pc = "resume" /\ refresh[1].response.ok
  /\ declaredFeatures # EmptyFeatures
  /\ ~inited /\ timers = {}

\* step: getFeatures() call i ends
EndStep(i) ==
  i \in DOMAIN refresh /\ refresh[i].pc # "done" /\ refresh'[i].pc = "done"

\* C15: a refresh started by a timer tick never ends by rejecting with the
\* 'Failed to get features' error of a non-success response.
C15_TickNeverRejects ==
  [][\A i \in Requests :
       (EndStep(i) /\ refresh[i].origin = "tick")
         => op'.ret # Reject(getFeaturesError(refresh[i].response))]_vars

\* C16: as long as destroy() was not called, every init() that resolved has
\* its own active timer, and the reads issued are one per init() call plus
\* one per elapsed period of each timer.
C16_TimerPerInit ==
  destroys = 0
  => /\ timers = 1..timersCreated
     /\ Cardinality(timers) = timersCreated
     /\ reads = (IF Missing(options, "publicKey") THEN 0 ELSE Len(inits))
                + elapsed

\* two init() calls have resolved and one period has elapsed: both timers
\* have fired, four reads in all
C16_Witness ==
  /\ destroys = 0
  /\ Len(inits) = 2 /\ timersCreated = 2
  /\ timers = {1, 2}
  /\ periods[1] = 1 /\ periods[2] = 1
  /\ reads = 4

\* C17: a destroy() called while no init() is in flight leaves no timer of
\* the manager active.
C17_DestroyStopsAllTimers ==
  [][(DestroyStep /\ InitsInFlight = {}) => timers' = {}]_vars

\* C18: when destroy() ran while the one init() of a manager awaited its
\* first refresh, that init() finishes with initialized false, no timer
\* active and the cache empty.
C18_DestroyDuringInit ==
  [][\A i \in Requests :
       (ResumeStep(i) /\ Len(inits) = 1 /\ refresh[i].call \in torn)
         => /\ ~inited'
            /\ timers' = {}
            /\ declaredFeatures' = EmptyFeatures]_vars

\* C19: once destroy() has returned after the one init() of a manager
\* resolved (initialized is false again and init() was not called anew), the
\* cache is empty.
C19_CacheEmptyAfterDestroy ==
  (Len(inits) = 1 /\ inits[1].kind = "resolve" /\ ~inited)
  => declaredFeatures = EmptyFeatures

\* C20: on a manager with one timer, when the cache was just assigned from
\* the success response of periodic read j, the success response of a
\* periodic read i issued before j does not overwrite it.
C20_EarlierReadNeverOverwrites ==
  [][\A i \in Requests :
       (/\ JsonStep(i) /\ refresh[i].response.ok
        /\ refresh[i].origin = "tick" /\ Len(inits) = 1
        /\ op.name = "getFeatures" /\ op.ret = Resolve(Undefined)
        /\ op.id > i)
         => declaredFeatures' = declaredFeatures]_vars

====
